---- MODULE Spec2Model ----
(***************************************************************************)
(* A model of the process manager (manager.c): the three pcb queues as     *)
(* singly linked lists threaded through pcb->next, the resource ledger,    *)
(* the request/release protocol, the wake-up scans, the deadlock check     *)
(* and the two scheduling loops schedule_fcfs and schedule_pri_w_pre.      *)
(*                                                                         *)
(* Pointers are process numbers, NULL is 0.  A C function becomes an       *)
(* operator from a machine record to a machine record.  Two outcomes end   *)
(* a run early and are kept in the field "out": "hung" (a list traversal   *)
(* that never ends because the list is cyclic) and "crashed" (a write      *)
(* through a NULL queue->last, which the build turns into a fault).        *)
(***************************************************************************)
EXTENDS Naturals, Integers, Sequences, FiniteSets, TLC

\* ---------------------------------------------------------------- bounds
MaxProcs == 3
NRes == 2
MaxInstr == 2
MaxTotalInstr == 3
MaxPrio == 2
MaxLog == 16
\* The release scenarios: one holder and WakeProcs - 1 later arrivals.
WakeProcs == 5
WakeInstr == 3
\* The scenarios of well-behaved processes.
TermProcs == 2
TermInstr == 3
\* The scenarios of two processes.
PairProcs == 2
PairInstr == 2
\* The scenarios of a holder and a waiter with a later request.
LateHolderInstr == 3
LateWaiterInstr == 2

NULL == 0
Ledger == 1..NRes
\* A mailbox name: never a name of the ledger.
Mailbox == NRes + 1

\* ------------------------------------------------------------ data model
States == {"NEW", "READY", "RUNNING", "WAITING", "TERMINATED"}
InstrTypes == {"REQ_OP", "REL_OP", "SEND_OP", "RECV_OP"}

Instr(t, n) == [type |-> t, name |-> n]

Instrs ==
  {Instr(t, n) : t \in {"REQ_OP", "REL_OP"}, n \in Ledger}
    \cup {Instr("SEND_OP", Mailbox)}

RECURSIVE SeqsUpTo(_, _)
SeqsUpTo(S, n) ==
  IF n = 0 THEN {<<>>}
  ELSE LET shorter == SeqsUpTo(S, n - 1)
       IN  shorter \cup {Append(q, x) : q \in {r \in shorter : Len(r) = n - 1}, x \in S}

Programs == SeqsUpTo(Instrs, MaxInstr)

RECURSIVE SumLen(_, _)
SumLen(f, n) == IF n = 0 THEN 0 ELSE Len(f[n]) + SumLen(f, n - 1)

\* The instructions of processes 1..n, one list after the other.
RECURSIVE Flat(_, _)
Flat(f, n) == IF n = 0 THEN <<>> ELSE Flat(f, n - 1) \o f[n]

\* Ledger names are interchangeable (they are unique and only compared for
\* equality), so one workload stands for its renamings: a name is first used only
\* after every smaller name.
CanonicalNames(l) ==
  \A i \in 1..Len(l) :
    (l[i].name \in Ledger /\ l[i].name > 1)
      => \E j \in 1..(i - 1) : l[j].name = l[i].name - 1

\* The workloads of n processes.
Workloads(n) ==
  {f \in [1..n -> Programs] :
     /\ SumLen(f, n) <= MaxTotalInstr
     /\ CanonicalNames(Flat(f, n))}

EmptyQueue == [first |-> NULL, last |-> NULL]

VARIABLES
  nprocs,    \* how many processes the loader holds, arrived or not
  prog,      \* process_in_mem->first_instr of each process: its instruction list
  prio,      \* pcb->priority
  sched,     \* the schedule_t handed to schedule_processes
  state,     \* pcb->state
  nxt,       \* pcb->next
  ni,        \* pcb->next_instruction, as an index into prog (past the end: NULL)
  held,      \* pcb->resources, most recently acquired first
  avail,     \* resource->available of each ledger record
  rq, wq, tq,\* readyq, waitingq, terminatedq: first and last
  cur,       \* current_process of the running scheduling loop
  narr,      \* how many processes the loader has handed out so far
  log,       \* the lines written by the logger, in order
  nexec,     \* how many times execute_instr ran a non-NULL instruction, per process
  pc,        \* where the scheduler is
  out        \* "ok", "hung" or "crashed"

vars == <<nprocs, prog, prio, sched, state, nxt, ni, held, avail, rq, wq, tq, cur,
          narr, log, nexec, pc, out>>

\* The mutable machine, as one record the operators below transform.
St ==
  [state |-> state, nxt |-> nxt, ni |-> ni, held |-> held, avail |-> avail,
   rq |-> rq, wq |-> wq, tq |-> tq, cur |-> cur, narr |-> narr, log |-> log,
   nexec |-> nexec, pc |-> pc, out |-> out]

Commit(s) ==
  /\ state' = s.state
  /\ nxt' = s.nxt
  /\ ni' = s.ni
  /\ held' = s.held
  /\ avail' = s.avail
  /\ rq' = s.rq
  /\ wq' = s.wq
  /\ tq' = s.tq
  /\ cur' = s.cur
  /\ narr' = s.narr
  /\ log' = s.log
  /\ nexec' = s.nexec
  /\ pc' = s.pc
  /\ out' = s.out

Ok(s) == s.out = "ok"

Event(e, p, n) == [ev |-> e, proc |-> p, name |-> n]

Log(s, e, p, n) == IF Ok(s) THEN [s EXCEPT !.log = Append(@, Event(e, p, n))] ELSE s

\* pcb->next_instruction: the instruction, or NULL
HasInstr(s, p) == s.ni[p] <= Len(prog[p])
NextInstr(s, p) == prog[p][s.ni[p]]

\* ------------------------------------------------------------- queue set
Queue(s, q) == CASE q = "rq" -> s.rq [] q = "wq" -> s.wq [] q = "tq" -> s.tq

SetQueue(s, q, v) ==
  CASE q = "rq" -> [s EXCEPT !.rq = v]
    [] q = "wq" -> [s EXCEPT !.wq = v]
    [] q = "tq" -> [s EXCEPT !.tq = v]

\* enqueue_pcb: pcb->next = NULL, then link after queue->last.  With first set and
\* last NULL the store queue->last->next goes through a NULL pointer.
enqueue_pcb(s, pcb, q) ==
  IF ~Ok(s) \/ pcb = NULL THEN s
  ELSE LET s1 == [s EXCEPT !.nxt[pcb] = NULL]
           qu == Queue(s1, q)
       IN  IF qu.first = NULL
             THEN SetQueue(s1, q, [first |-> pcb, last |-> pcb])
           ELSE IF qu.last = NULL
             THEN [s1 EXCEPT !.out = "crashed"]
           ELSE SetQueue([s1 EXCEPT !.nxt[qu.last] = pcb], q,
                         [first |-> qu.first, last |-> pcb])

\* dequeue_pcb: the record after the call, and the pcb returned (NULL: empty).
dequeue_proc(s, q) == Queue(s, q).first

dequeue_pcb(s, q) ==
  IF ~Ok(s) \/ Queue(s, q).first = NULL THEN s
  ELSE LET qu == Queue(s, q)
           proc == qu.first
           f == s.nxt[proc]
           s1 == SetQueue(s, q, [first |-> f, last |-> IF f = NULL THEN NULL ELSE qu.last])
       IN  [s1 EXCEPT !.nxt[proc] = NULL]

\* move_proc_to_rq with the process put at the head of the ready queue.
move_proc_to_rq_front(s, pcb) ==
  IF ~Ok(s) \/ pcb = NULL THEN s
  ELSE Log([s EXCEPT !.state[pcb] = "READY",
                     !.nxt[pcb] = s.rq.first,
                     !.rq = [first |-> pcb,
                             last |-> IF s.rq.first = NULL THEN pcb ELSE s.rq.last]],
           "ready", pcb, NULL)

move_proc_to_rq(s, pcb) ==
  IF ~Ok(s) \/ pcb = NULL THEN s
  ELSE Log(enqueue_pcb([s EXCEPT !.state[pcb] = "READY"], pcb, "rq"), "ready", pcb, NULL)

move_proc_to_wq(s, pcb, resource_name) ==
  IF ~Ok(s) \/ pcb = NULL THEN s
  ELSE Log(enqueue_pcb([s EXCEPT !.state[pcb] = "WAITING"], pcb, "wq"),
           "waiting", pcb, resource_name)

\* move_proc_to_tq without the terminated line.
move_proc_to_tq_unlogged(s, pcb) ==
  IF ~Ok(s) \/ pcb = NULL THEN s
  ELSE enqueue_pcb([s EXCEPT !.state[pcb] = "TERMINATED"], pcb, "tq")

\* move_proc_to_tq with the resources of the process given back to the ledger.
move_proc_to_tq_freeing(s, pcb) ==
  IF ~Ok(s) \/ pcb = NULL THEN s
  ELSE Log(enqueue_pcb([s EXCEPT !.state[pcb] = "TERMINATED",
                                 !.avail = [r \in DOMAIN s.avail |->
                                              s.avail[r] \/ \E i \in DOMAIN s.held[pcb] :
                                                               s.held[pcb][i] = r]],
                       pcb, "tq"),
           "terminated", pcb, NULL)

move_proc_to_tq(s, pcb) ==
  IF ~Ok(s) \/ pcb = NULL THEN s
  ELSE Log(enqueue_pcb([s EXCEPT !.state[pcb] = "TERMINATED"], pcb, "tq"),
           "terminated", pcb, NULL)

\* ------------------------------------------------------ resource manager
is_resource_available(s, resource_name) ==
  resource_name \in Ledger /\ s.avail[resource_name]

\* mark_resource_as_available leaving the record as it is.
mark_resource_unchanged(s, resource_name) == s

mark_resource_as_available(s, resource_name) ==
  IF resource_name \in Ledger THEN [s EXCEPT !.avail[resource_name] = TRUE] ELSE s

\* request_resource without the availability test.
request_resource_any(s, cur_pcb, instr) ==
  IF ~Ok(s) THEN s
  ELSE IF instr.name \in Ledger
    THEN Log([s EXCEPT !.avail[instr.name] = FALSE,
                       !.held[cur_pcb] = <<instr.name>> \o @],
             "acquired", cur_pcb, instr.name)
  ELSE move_proc_to_wq(s, cur_pcb, instr.name)

\* request_resource with the copy put at the end of the process's list.
request_resource_tail(s, cur_pcb, instr) ==
  IF ~Ok(s) THEN s
  ELSE IF is_resource_available(s, instr.name)
    THEN Log([s EXCEPT !.avail[instr.name] = FALSE,
                       !.held[cur_pcb] = @ \o <<instr.name>>],
             "acquired", cur_pcb, instr.name)
  ELSE move_proc_to_wq(s, cur_pcb, instr.name)

\* request_resource: the ledger record of that name, if it is available, is marked
\* unavailable and a copy is put at the head of the process's list; otherwise the
\* process goes to the waiting queue.
request_resource(s, cur_pcb, instr) ==
  IF ~Ok(s) THEN s
  ELSE IF is_resource_available(s, instr.name)
    THEN Log([s EXCEPT !.avail[instr.name] = FALSE,
                       !.held[cur_pcb] = <<instr.name>> \o @],
             "acquired", cur_pcb, instr.name)
  ELSE move_proc_to_wq(s, cur_pcb, instr.name)

\* request_resource going on as if nothing had happened when malloc returns NULL for
\* the copy of the record: the record stays marked unavailable and nobody holds it.
request_resource_nomem_goes_on(s, cur_pcb, instr) ==
  IF ~Ok(s) THEN s
  ELSE IF is_resource_available(s, instr.name)
    THEN [s EXCEPT !.avail[instr.name] = FALSE]
  ELSE move_proc_to_wq(s, cur_pcb, instr.name)

\* request_resource when malloc returns NULL for the copy of the record (lines
\* 357-366): the record is already marked unavailable, the message goes to stderr
\* and exit(EXIT_FAILURE) ends the program.  No malloc is made for a resource that
\* is not available.
request_resource_nomem(s, cur_pcb, instr) ==
  IF ~Ok(s) THEN s
  ELSE IF is_resource_available(s, instr.name)
    THEN [s EXCEPT !.avail[instr.name] = FALSE, !.out = "exit"]
  ELSE move_proc_to_wq(s, cur_pcb, instr.name)

\* The position of the first node of the process's list with that name, 0: none.
HeldIndex(l, resource_name) ==
  IF \E i \in 1..Len(l) : l[i] = resource_name
    THEN CHOOSE i \in 1..Len(l) :
           /\ l[i] = resource_name
           /\ \A j \in 1..(i - 1) : l[j] # resource_name
  ELSE 0

RemoveAt(l, i) == SubSeq(l, 1, i - 1) \o SubSeq(l, i + 1, Len(l))

\* is_waiting_for_resource: the process is WAITING and some instruction from its
\* next one on is a request for that name.
is_waiting_for_resource(s, pcb, resource_name) ==
  /\ pcb # NULL
  /\ s.state[pcb] = "WAITING"
  /\ \E i \in s.ni[pcb]..Len(prog[pcb]) :
       prog[pcb][i] = Instr("REQ_OP", resource_name)

\* The loop of move_waiting_pcbs_to_rq from (prev, current).  seen: the nodes the
\* walk passed since it last changed the heap; coming back to one of them, the
\* walk repeats for ever.
RECURSIVE waiting_pcbs_loop(_, _, _, _, _)
waiting_pcbs_loop(s, resource_name, prev, current, seen) ==
  IF ~Ok(s) \/ current = NULL THEN s
  ELSE IF is_waiting_for_resource(s, current, resource_name)
    THEN LET temp == s.nxt[current]
             s1 == IF prev # NULL THEN [s EXCEPT !.nxt[prev] = temp]
                   ELSE [s EXCEPT !.wq.first = temp]
             s2 == IF s1.wq.last = current THEN [s1 EXCEPT !.wq.last = prev] ELSE s1
             s3 == move_proc_to_rq([s2 EXCEPT !.nxt[current] = NULL], current)
         IN  waiting_pcbs_loop(s3, resource_name, prev, temp, {})
  ELSE IF current \in seen THEN [s EXCEPT !.out = "hung"]
  ELSE waiting_pcbs_loop(s, resource_name, current, s.nxt[current], seen \cup {current})

move_waiting_pcbs_to_rq(s, resource_name) ==
  waiting_pcbs_loop(s, resource_name, NULL, s.wq.first, {})

\* release_resource with the node left in the process's list.
release_resource_keeps_node(s, pcb, instr) ==
  IF ~Ok(s) THEN s
  ELSE LET i == HeldIndex(s.held[pcb], instr.name)
       IN  IF i = 0 THEN Log(s, "release error", pcb, instr.name)
           ELSE LET s2 == mark_resource_as_available(s, instr.name)
                    s3 == Log(s2, "released", pcb, instr.name)
                IN  move_waiting_pcbs_to_rq(s3, instr.name)

\* release_resource: the first node of that name leaves the process's list and the
\* ledger record becomes available, then the waiting queue is scanned; with no
\* such node only the error is logged.
release_resource(s, pcb, instr) ==
  IF ~Ok(s) THEN s
  ELSE LET i == HeldIndex(s.held[pcb], instr.name)
       IN  IF i = 0 THEN Log(s, "release error", pcb, instr.name)
           ELSE LET s1 == [s EXCEPT !.held[pcb] = RemoveAt(@, i)]
                    s2 == mark_resource_as_available(s1, instr.name)
                    s3 == Log(s2, "released", pcb, instr.name)
                IN  move_waiting_pcbs_to_rq(s3, instr.name)

\* The loop of move_waiting_to_ready_based_on_resources.  loc is the pcb_t** of the
\* code: NULL for &waitingq.first, p for &p->next.  seen: the loop's states so far
\* (the log aside, which the loop does not read); a repeated one repeats for ever.
LoopView(s, loc, prev) ==
  [loc |-> loc, prev |-> prev, nxt |-> s.nxt, state |-> s.state, rq |-> s.rq, wq |-> s.wq]

RECURSIVE based_on_resources_loop(_, _, _, _)
based_on_resources_loop(s, loc, prev, seen) ==
  IF ~Ok(s) THEN s
  ELSE LET process == IF loc = NULL THEN s.wq.first ELSE s.nxt[loc]
       IN  IF process = NULL THEN s
           ELSE IF LoopView(s, loc, prev) \in seen THEN [s EXCEPT !.out = "hung"]
           ELSE LET seen1 == seen \cup {LoopView(s, loc, prev)}
                    canMoveToReady ==
                      /\ HasInstr(s, process)
                      /\ is_resource_available(s, NextInstr(s, process).name)
                IN  IF canMoveToReady
                      THEN LET s1 == IF prev # NULL
                                       THEN [s EXCEPT !.nxt[prev] = s.nxt[process]]
                                     ELSE [s EXCEPT !.wq.first = s.nxt[process]]
                               s2 == IF s1.wq.last = process
                                       THEN [s1 EXCEPT !.wq.last = prev]
                                     ELSE s1
                               s3 == move_proc_to_rq(s2, process)
                           IN  based_on_resources_loop(s3, prev, prev, seen1)
                    ELSE based_on_resources_loop(s, process, process, seen1)

move_waiting_to_ready_based_on_resources(s) ==
  based_on_resources_loop(s, NULL, NULL, {})

\* execute_instr: a request, a release followed by the second wake-up scan, or (send,
\* receive, NULL) nothing.
execute_instr(s, pcb, hasInstr) ==
  IF ~Ok(s) \/ ~hasInstr THEN s
  ELSE LET instr == NextInstr(s, pcb)
           s0 == [s EXCEPT !.nexec[pcb] = @ + 1]
       IN  CASE instr.type = "REQ_OP" -> request_resource(s0, pcb, instr)
             [] instr.type = "REL_OP" ->
                  move_waiting_to_ready_based_on_resources(release_resource(s0, pcb, instr))
             [] OTHER -> s0

\* ------------------------------------------------------ process registry
\* get_new_pcb: the loader's next process, or NULL.  Processes arrive in the order
\* of their numbers; arrives says whether one is handed out at this poll.
get_new_pcb(s, arrives) == IF arrives /\ s.narr < nprocs THEN s.narr + 1 ELSE NULL

\* check_for_new_arrivals with the new process put at the head of the ready queue.
check_for_new_arrivals_front(s, arrives) ==
  IF ~Ok(s) THEN s
  ELSE LET new_pcb == get_new_pcb(s, arrives)
       IN  IF new_pcb = NULL THEN s
           ELSE Log([s EXCEPT !.narr = new_pcb,
                              !.state[new_pcb] = "READY",
                              !.nxt[new_pcb] = s.rq.first,
                              !.rq = [first |-> new_pcb,
                                      last |-> IF s.rq.first = NULL THEN new_pcb
                                               ELSE s.rq.last]],
                    "ready", new_pcb, NULL)

\* check_for_new_arrivals: the record after the call; its result is
\* get_new_pcb(s, arrives) # NULL.
check_for_new_arrivals(s, arrives) ==
  IF ~Ok(s) THEN s
  ELSE LET new_pcb == get_new_pcb(s, arrives)
       IN  IF new_pcb = NULL THEN s
           ELSE move_proc_to_rq([s EXCEPT !.narr = new_pcb], new_pcb)

\* ------------------------------------------------------- priority helpers
INT_MIN == -2147483647 - 1
HUNG == -1

\* higher_priority answering TRUE for equal priorities too.
higher_or_equal_priority(pri1, pri2) == pri1 >= pri2

higher_priority(pri1, pri2) == pri1 > pri2

\* The scan of find_highest_priority_proc from current: the first process of the
\* ready list whose priority exceeds every earlier one's, or HUNG on a cyclic list.
RECURSIVE highest_loop(_, _, _, _, _)
highest_loop(s, current, highest_priority, highest_priority_proc, seen) ==
  IF current = NULL THEN highest_priority_proc
  ELSE IF current \in seen THEN HUNG
  ELSE IF prio[current] > highest_priority
    THEN highest_loop(s, s.nxt[current], prio[current], current, seen \cup {current})
  ELSE highest_loop(s, s.nxt[current], highest_priority, highest_priority_proc,
                    seen \cup {current})

\* find_highest_priority_proc without the scan: the head of the ready list.
find_first_ready_proc(s) == s.rq.first

find_highest_priority_proc(s) == highest_loop(s, s.rq.first, INT_MIN, NULL, {})

\* The node of the ready list whose next is proc, NULL when the walk reaches the end,
\* HUNG when it goes round a cycle.
RECURSIVE pred_loop(_, _, _, _)
pred_loop(s, current, proc, seen) ==
  IF current = NULL \/ s.nxt[current] = proc THEN current
  ELSE IF current \in seen THEN HUNG
  ELSE pred_loop(s, s.nxt[current], proc, seen \cup {current})

remove_proc_from_readyq(s, proc) ==
  IF ~Ok(s) \/ proc = NULL \/ s.rq.first = NULL THEN s
  ELSE IF s.rq.first = proc
    THEN LET s1 == [s EXCEPT !.rq.first = s.nxt[proc]]
             s2 == IF s1.rq.last = proc THEN [s1 EXCEPT !.rq.last = NULL] ELSE s1
         IN  [s2 EXCEPT !.nxt[proc] = NULL]
  ELSE LET current == pred_loop(s, s.rq.first, proc, {})
       IN  IF current = HUNG THEN [s EXCEPT !.out = "hung"]
           ELSE IF current = NULL THEN [s EXCEPT !.nxt[proc] = NULL]
           ELSE LET s1 == [s EXCEPT !.nxt[current] = s.nxt[proc]]
                    s2 == IF s1.rq.last = proc THEN [s1 EXCEPT !.rq.last = current] ELSE s1
                IN  [s2 EXCEPT !.nxt[proc] = NULL]

\* ------------------------------------------------------ deadlock detector
\* check_deadlock's test, made only with no current process.
deadlock_condition_idle(s) == s.rq.first = NULL /\ s.wq.first # NULL /\ s.cur = NULL

\* check_deadlock's test without the look at the waiting queue.
deadlock_condition_ready_only(s) == s.rq.first = NULL

\* check_deadlock's test
deadlock_condition(s) == s.rq.first = NULL /\ s.wq.first # NULL

\* detect_deadlock followed by what resolve_deadlock is documented to do to the head
\* of the waiting queue: its resources are released and its cursor is set back to
\* its first instruction.
detect_deadlock_reset(s) ==
  LET pcb == s.wq.first
      s1 == Log(s, "deadlock detected", NULL, NULL)
  IN  IF ~Ok(s) \/ pcb = NULL THEN s1
      ELSE [s1 EXCEPT !.avail = [r \in Ledger |->
                                  @[r] \/ \E i \in 1..Len(s.held[pcb]) : s.held[pcb][i] = r],
                      !.held[pcb] = <<>>,
                      !.ni[pcb] = 1]

\* detect_deadlock: only the log line
detect_deadlock(s) == Log(s, "deadlock detected", NULL, NULL)

\* check_deadlock without the call of detect_deadlock.
check_deadlock_unreported(s) == s

\* check_deadlock: the record after the call; its result is deadlock_condition(s).
check_deadlock(s) == IF Ok(s) /\ deadlock_condition(s) THEN detect_deadlock(s) ELSE s

\* ---------------------------------------- scheduler core: priority loop
SetRunning(s, p) == IF Ok(s) THEN [s EXCEPT !.state[p] = "RUNNING"] ELSE s

\* Lines 179-185: with no current process, take the highest-priority ready one.
pri_select(s) ==
  IF ~Ok(s) \/ s.cur # NULL THEN s
  ELSE LET h == find_highest_priority_proc(s)
       IN  IF h = HUNG THEN [s EXCEPT !.out = "hung"]
           ELSE IF h = NULL THEN s
           ELSE SetRunning(remove_proc_from_readyq([s EXCEPT !.cur = h], h), h)

\* Lines 208-218 and 221-232: the preemption check.
preempt_check(s) ==
  IF ~Ok(s) THEN s
  ELSE LET h == find_highest_priority_proc(s)
       IN  IF h = HUNG THEN [s EXCEPT !.out = "hung"]
           ELSE IF h # NULL /\ (s.cur = NULL \/ higher_priority(prio[h], prio[s.cur]))
             THEN LET s1 == IF s.cur # NULL
                              THEN move_proc_to_rq([s EXCEPT !.state[s.cur] = "READY"], s.cur)
                            ELSE s
                      s2 == IF Ok(s1) THEN [s1 EXCEPT !.cur = h] ELSE s1
                  IN  SetRunning(remove_proc_from_readyq(s2, h), h)
           ELSE s

\* Lines 194-204 with the terminated process left as the current process.
pri_advance_keeps_current(s) ==
  IF ~Ok(s) THEN s
  ELSE IF HasInstr(s, s.cur)
    THEN IF s.state[s.cur] = "RUNNING" THEN [s EXCEPT !.ni[s.cur] = @ + 1] ELSE s
  ELSE move_proc_to_tq([s EXCEPT !.state[s.cur] = "TERMINATED"], s.cur)

\* Lines 194-204 with the cursor moved on whatever the state of the process.
pri_advance_always(s) ==
  IF ~Ok(s) THEN s
  ELSE IF HasInstr(s, s.cur) THEN [s EXCEPT !.ni[s.cur] = @ + 1]
  ELSE LET s1 == move_proc_to_tq([s EXCEPT !.state[s.cur] = "TERMINATED"], s.cur)
       IN  IF Ok(s1) THEN [s1 EXCEPT !.cur = NULL] ELSE s1

\* Lines 194-204: advance the cursor of a process still RUNNING; a process whose
\* cursor was already NULL goes to the terminated queue.
pri_advance(s) ==
  IF ~Ok(s) THEN s
  ELSE IF HasInstr(s, s.cur)
    THEN IF s.state[s.cur] = "RUNNING" THEN [s EXCEPT !.ni[s.cur] = @ + 1] ELSE s
  ELSE LET s1 == move_proc_to_tq([s EXCEPT !.state[s.cur] = "TERMINATED"], s.cur)
       IN  IF Ok(s1) THEN [s1 EXCEPT !.cur = NULL] ELSE s1

\* Lines 188-236: the body of one pass once the selection is made.
pri_body(s, arrives) ==
  IF ~Ok(s) THEN s
  ELSE IF s.cur # NULL /\ s.state[s.cur] = "RUNNING"
    THEN LET s1 == execute_instr(s, s.cur, HasInstr(s, s.cur))
             new_arrival == Ok(s1) /\ get_new_pcb(s1, arrives) # NULL
             s2 == check_for_new_arrivals(s1, arrives)
             s3 == pri_advance(s2)
             s4 == IF new_arrival THEN preempt_check(s3) ELSE s3
         IN  preempt_check(s4)
  ELSE IF s.cur # NULL /\ s.state[s.cur] = "WAITING" THEN [s EXCEPT !.cur = NULL]
  ELSE s

\* Lines 238-248: the two exits at the end of a pass.
pri_exits(s, arrives) ==
  IF ~Ok(s) THEN s
  ELSE IF s.cur = NULL /\ s.rq.first = NULL /\ s.wq.first = NULL
          /\ get_new_pcb(s, arrives) = NULL
    THEN [s EXCEPT !.pc = "done"]
  ELSE LET s1 == IF s.cur = NULL /\ s.rq.first = NULL /\ s.wq.first = NULL
                   THEN check_for_new_arrivals(s, arrives)
                 ELSE s
           deadlock == Ok(s1) /\ deadlock_condition(s1)
           s2 == check_deadlock(s1)
       IN  IF deadlock /\ Ok(s2) THEN [s2 EXCEPT !.pc = "done"] ELSE s2

\* One pass of the while loop of schedule_pri_w_pre, its test included.
pri_pass(s, arrives1, arrives2) ==
  IF s.rq.first # NULL \/ s.wq.first # NULL \/ s.cur # NULL
    THEN pri_exits(pri_body(pri_select(s), arrives1), arrives2)
  ELSE [s EXCEPT !.pc = "done"]

\* -------------------------------------------- scheduler core: FCFS loop
\* Lines 258-265: the outer loop's test, the dequeue and the RUNNING mark.
fcfs_select(s) ==
  IF s.rq.first = NULL THEN [s EXCEPT !.pc = "done"]
  ELSE LET current_process == dequeue_proc(s, "rq")
           s1 == dequeue_pcb(s, "rq")
       IN  [s1 EXCEPT !.cur = current_process,
                      !.state[current_process] = "RUNNING",
                      !.pc = "fcfs_inner"]

\* Lines 282-285, and back to the outer loop's test.
fcfs_after(s) ==
  IF ~Ok(s) THEN s
  ELSE LET s1 == IF ~HasInstr(s, s.cur) /\ s.state[s.cur] # "WAITING"
                   THEN move_proc_to_tq(s, s.cur)
                 ELSE s
       IN  IF Ok(s1) THEN [s1 EXCEPT !.cur = NULL, !.pc = "fcfs_top"] ELSE s1

\* Lines 268-280: one turn of the inner loop; with the cursor at NULL the loop is
\* left.
fcfs_step(s, arrives) ==
  IF ~HasInstr(s, s.cur) THEN fcfs_after(s)
  ELSE LET s1 == execute_instr(s, s.cur, TRUE)
           s2 == check_for_new_arrivals(s1, arrives)
       IN  IF ~Ok(s2) THEN s2
           ELSE IF s2.state[s2.cur] = "WAITING"
             THEN fcfs_after(move_proc_to_wq(s2, s2.cur, NextInstr(s2, s2.cur).name))
           ELSE [s2 EXCEPT !.ni[s2.cur] = @ + 1]

\* schedule_processes with RR handed to schedule_rr, whose body is empty.
schedule_processes_rr(s, sched_type) ==
  CASE sched_type = "PRIOR" -> [s EXCEPT !.pc = "pri_top"]
    [] sched_type = "FCFS" -> [s EXCEPT !.pc = "fcfs_top"]
    [] OTHER -> [s EXCEPT !.pc = "done"]

\* schedule_processes: RR runs the FCFS loop.
schedule_processes(s, sched_type) ==
  CASE sched_type = "PRIOR" -> [s EXCEPT !.pc = "pri_top"]
    [] sched_type = "RR" -> [s EXCEPT !.pc = "fcfs_top"]
    [] sched_type = "FCFS" -> [s EXCEPT !.pc = "fcfs_top"]
    [] OTHER -> [s EXCEPT !.pc = "done"]

\* ------------------------------------------------------------ the machine
\* init_queues: the loaded processes 1..n, linked in that order, are the ready queue.
init_queues(n) ==
  /\ rq = [first |-> 1, last |-> n]
  /\ nxt = [p \in 1..nprocs |-> IF p < n THEN p + 1 ELSE NULL]
  /\ wq = EmptyQueue
  /\ tq = EmptyQueue

\* The state main hands to schedule_processes: n processes in all, the first ninit
\* of them loaded before scheduling starts.
InitWith(scheds, n, workloads, prios, ninits) ==
  /\ sched \in scheds
  /\ nprocs = n
  /\ prog \in workloads
  /\ prio \in prios
  /\ narr \in ninits
  /\ init_queues(narr)
  /\ state = [p \in 1..n |-> IF p <= narr THEN "READY" ELSE "NEW"]
  /\ ni = [p \in 1..n |-> 1]
  /\ held = [p \in 1..n |-> <<>>]
  /\ avail = [r \in Ledger |-> TRUE]
  /\ cur = NULL
  /\ log = <<>>
  /\ nexec = [p \in 1..n |-> 0]
  /\ pc = "start"
  /\ out = "ok"

\* Under FCFS the priority is never read: one value stands for all.
Init ==
  \/ InitWith({"PRIOR"}, MaxProcs, Workloads(MaxProcs), [1..MaxProcs -> 1..MaxPrio],
              1..MaxProcs)
  \/ InitWith({"FCFS"}, MaxProcs, Workloads(MaxProcs), {[p \in 1..MaxProcs |-> 0]},
              1..MaxProcs)

Static == UNCHANGED <<nprocs, prog, prio, sched>>

\* What a poll of the loader can answer: a process only while some have not arrived.
Arrivals == IF narr < nprocs THEN BOOLEAN ELSE {FALSE}

\* The scheduler is running and has not yet written MaxLog lines.
Live == out = "ok" /\ Len(log) < MaxLog

Schedule ==
  /\ pc = "start" /\ Live
  /\ Commit(schedule_processes(St, sched))
  /\ Static

PriPass ==
  /\ pc = "pri_top" /\ Live
  /\ \E arrives1 \in Arrivals, arrives2 \in Arrivals : Commit(pri_pass(St, arrives1, arrives2))
  /\ Static

FcfsSelect ==
  /\ pc = "fcfs_top" /\ Live
  /\ Commit(fcfs_select(St))
  /\ Static

FcfsStep ==
  /\ pc = "fcfs_inner" /\ Live
  /\ \E arrives \in Arrivals : Commit(fcfs_step(St, arrives))
  /\ Static

Next == Schedule \/ PriPass \/ FcfsSelect \/ FcfsStep

Spec == Init /\ [][Next]_vars

\* The release scenarios.  Process 1, of the lowest priority and the only one loaded
\* before scheduling starts, requests resources, the first ledger name first, and
\* ends with one release; the others arrive while it runs, each with a single
\* request.
WakeHolders ==
  {q \in SeqsUpTo(Instrs, WakeInstr) :
     /\ Len(q) >= 2
     /\ q[1] = Instr("REQ_OP", 1)
     /\ \A i \in 1..(Len(q) - 1) : q[i].type = "REQ_OP"
     /\ q[Len(q)].type = "REL_OP"}

WakeWaiters == {<<Instr("REQ_OP", r)>> : r \in Ledger}

WakeWorkloads ==
  {[p \in 1..WakeProcs |-> IF p = 1 THEN h ELSE w[p]] :
     h \in WakeHolders, w \in [2..WakeProcs -> WakeWaiters]}

WakePrios ==
  {[p \in 1..WakeProcs |-> IF p = 1 THEN 1 ELSE f[p]] :
     f \in [2..WakeProcs -> 1..MaxPrio]}

InitWake == InitWith({"PRIOR"}, WakeProcs, WakeWorkloads, WakePrios, {1})

NextWake == Schedule \/ PriPass

SpecWake == InitWake /\ [][NextWake]_vars

\* The scenarios of well-behaved processes: a process requests a resource only
\* while it holds none, and releases what it holds before it ends.
RECURSIVE Balanced(_, _, _)
Balanced(q, i, holding) ==
  IF i > Len(q) THEN holding = NULL
  ELSE CASE q[i].type = "REQ_OP" -> holding = NULL /\ Balanced(q, i + 1, q[i].name)
         [] q[i].type = "REL_OP" -> holding = q[i].name /\ Balanced(q, i + 1, NULL)
         [] OTHER -> Balanced(q, i + 1, holding)

TermPrograms == {q \in SeqsUpTo(Instrs, TermInstr) : Balanced(q, 1, NULL)}

InitTerm ==
  \/ InitWith({"PRIOR"}, TermProcs, [1..TermProcs -> TermPrograms],
              [1..TermProcs -> 1..MaxPrio], 1..TermProcs)
  \/ InitWith({"FCFS"}, TermProcs, [1..TermProcs -> TermPrograms],
              {[p \in 1..TermProcs |-> 0]}, 1..TermProcs)

SpecTerm == InitTerm /\ [][Next]_vars

\* The scenarios of two processes: PairProcs processes of up to PairInstr requests
\* and releases each, under both policies.
PairPrograms ==
  SeqsUpTo({Instr(t, r) : t \in {"REQ_OP", "REL_OP"}, r \in Ledger}, PairInstr)

InitPair ==
  \/ InitWith({"PRIOR"}, PairProcs, [1..PairProcs -> PairPrograms],
              [1..PairProcs -> 1..MaxPrio], 1..PairProcs)
  \/ InitWith({"FCFS"}, PairProcs, [1..PairProcs -> PairPrograms],
              {[p \in 1..PairProcs |-> 0]}, 1..PairProcs)

SpecPair == InitPair /\ [][Next]_vars

\* The runs asked for as round robin, side by side with the FCFS runs of the same
\* workloads.
InitRR ==
  InitWith({"RR", "FCFS"}, MaxProcs, Workloads(MaxProcs), {[p \in 1..MaxProcs |-> 0]},
           1..MaxProcs)

NextRR == Schedule \/ FcfsSelect \/ FcfsStep

SpecRR == InitRR /\ [][NextRR]_vars

\* The scenarios of a waiter with requests to come: priority scheduling of process
\* 1, of up to LateHolderInstr requests and releases, and process 2, of up to
\* LateWaiterInstr.
LateWorkloads ==
  {<<h, w>> : h \in SeqsUpTo({Instr(t, r) : t \in {"REQ_OP", "REL_OP"}, r \in Ledger},
                              LateHolderInstr),
              w \in SeqsUpTo({Instr(t, r) : t \in {"REQ_OP", "REL_OP"}, r \in Ledger},
                              LateWaiterInstr)}

InitLate == InitWith({"PRIOR"}, 2, LateWorkloads, [1..2 -> 1..MaxPrio], 1..2)

SpecLate == InitLate /\ [][NextWake]_vars

\* The scenarios of the priority values: two processes whose priorities are drawn
\* from the lower end and the middle of the range of int.
PrioValues == {INT_MIN, INT_MIN + 1, 0, 1}

InitPrio ==
  InitWith({"PRIOR"}, PairProcs, [1..PairProcs -> PairPrograms],
           [1..PairProcs -> PrioValues], 1..PairProcs)

SpecPrio == InitPrio /\ [][NextWake]_vars

\* ------------------------------------------------- reading the queues
\* The nodes met walking a list from first, in order, up to NULL or to the first
\* node met a second time.
RECURSIVE Walk(_, _, _)
Walk(nx, first, seen) ==
  IF first = NULL \/ first \in seen THEN <<>>
  ELSE <<first>> \o Walk(nx, nx[first], seen \cup {first})

RECURSIVE WalkEnd(_, _, _)
WalkEnd(nx, first, seen) ==
  IF first = NULL \/ first \in seen THEN first
  ELSE WalkEnd(nx, nx[first], seen \cup {first})

QList(q) == Walk(nxt, q.first, {})
Range(l) == {l[i] : i \in 1..Len(l)}
InQueue(q, p) == p \in Range(QList(q))
\* The walk from first comes back to a node of the list: the list never ends.
Cyclic(q) == WalkEnd(nxt, q.first, {}) # NULL

Admitted == 1..narr
IsRunning(p) == cur = p /\ state[p] = "RUNNING"
HasEvent(e) == \E i \in 1..Len(log) : log[i].ev = e
CountEvent(e) == Cardinality({i \in 1..Len(log) : log[i].ev = e})
Holders(r) == {p \in 1..nprocs : \E i \in 1..Len(held[p]) : held[p][i] = r}

\* Ready is empty and Waiting is not, as the queue heads show it.
DeadlockState == rq.first = NULL /\ wq.first # NULL

\* ----------------------------------------------------------------- claims

\* C1: in every reachable state, under either policy, each resource of the ledger
\* is in the held-resource list of at most one process.
C1_MutualExclusion == \A r \in Ledger : Cardinality(Holders(r)) <= 1

\* C1 witness: a process holds a resource for which another process's request was
\* turned down.
C1_Witness ==
  \E r \in Ledger, p \in 1..nprocs, i \in 1..Len(log) :
    /\ Holders(r) = {p}
    /\ log[i] = Event("waiting", log[i].proc, r)
    /\ log[i].proc # p

\* How many of the four places (the Running slot, Ready, Waiting, Terminated) hold p.
Places(p) ==
  (IF IsRunning(p) THEN 1 ELSE 0) + (IF InQueue(rq, p) THEN 1 ELSE 0)
    + (IF InQueue(wq, p) THEN 1 ELSE 0) + (IF InQueue(tq, p) THEN 1 ELSE 0)

\* C2: in every reachable state, under either policy, every admitted process is in
\* exactly one place: it is the Running process and in no queue, or it is once in
\* exactly one of Ready, Waiting, Terminated; no queue holds a process twice (its
\* list does not come back to one of its nodes).
C2_QueuePartition ==
  /\ \A p \in Admitted : Places(p) = 1
  /\ ~Cyclic(rq) /\ ~Cyclic(wq) /\ ~Cyclic(tq)

\* C3: under priority scheduling a loop pass never ends with Ready empty and Waiting
\* non-empty and the loop still going: the scheduler has then returned, with exactly
\* one deadlock event logged, and from then on no process executes an instruction.
C3_DeadlockHalts ==
  /\ [](sched = "PRIOR" /\ pc # "start" /\ out = "ok" /\ DeadlockState
          => pc = "done" /\ CountEvent("deadlock detected") = 1)
  /\ [][HasEvent("deadlock detected") => nexec' = nexec /\ log' = log]_vars

\* C3 witness: the priority loop has returned on a detected deadlock.
C3_Witness ==
  /\ sched = "PRIOR" /\ pc = "done" /\ DeadlockState
  /\ CountEvent("deadlock detected") = 1
  /\ \E p \in Admitted : nexec[p] > 0

\* C4: under FCFS the scheduler never returns with Waiting non-empty and no deadlock
\* event logged.
C4_FcfsReportsDeadlock ==
  sched = "FCFS" /\ pc = "done" /\ wq.first # NULL => HasEvent("deadlock detected")

\* C5: a deadlock event is logged only with Ready empty and Waiting non-empty; and
\* when the scheduler has stopped with Ready and Waiting empty and no Running
\* process, no deadlock event was logged and every admitted process is in Terminated.
C5_CompletionVsDeadlock ==
  /\ HasEvent("deadlock detected") => DeadlockState
  /\ (pc = "done" /\ rq.first = NULL /\ wq.first = NULL /\ cur = NULL)
       => /\ ~HasEvent("deadlock detected")
          /\ \A p \in Admitted : state[p] = "TERMINATED" /\ InQueue(tq, p)

\* C5 witness: the scheduler has stopped with every queue but Terminated empty,
\* after a run in which a request had to wait, and no deadlock was reported.
C5_Witness ==
  /\ pc = "done" /\ rq.first = NULL /\ wq.first = NULL /\ cur = NULL
  /\ HasEvent("waiting") /\ ~HasEvent("deadlock detected")
  /\ narr >= 2 /\ \A p \in Admitted : state[p] = "TERMINATED" /\ InQueue(tq, p)

\* --------------------------------------------------- reading one step
\* The step logs a successful release of r.
ReleasedNow(r) ==
  \E i \in (Len(log) + 1)..Len(log') : log'[i].ev = "released" /\ log'[i].name = r

\* The step logs a successful release by p.
Releases(p) ==
  \E i \in (Len(log) + 1)..Len(log') : log'[i].ev = "released" /\ log'[i].proc = p

\* p is in Waiting and the instruction at its cursor is Request(r).
PendingRequest(p, r) ==
  InQueue(wq, p) /\ ni[p] <= Len(prog[p]) /\ prog[p][ni[p]] = Instr("REQ_OP", r)

\* p is in Ready, or was taken from it into the Running slot.
Runnable(p) ==
  /\ ~InQueue(wq, p)
  /\ \/ InQueue(rq, p) /\ state[p] = "READY"
     \/ IsRunning(p)

\* The position of x in l.
Index(l, x) == CHOOSE i \in 1..Len(l) : l[i] = x

\* The members of l that are in S, in the order of l.
RECURSIVE Restrict(_, _)
Restrict(l, S) ==
  IF l = <<>> THEN <<>>
  ELSE (IF Head(l) \in S THEN <<Head(l)>> ELSE <<>>) \o Restrict(Tail(l), S)

IsPrefix(l, m) == Len(l) <= Len(m) /\ SubSeq(m, 1, Len(l)) = l

\* C6: a step in which the Running process successfully releases r leaves no
\* process that was in Waiting with Request(r) at its cursor in Waiting: every one
\* of them, not only the first, is in Ready (or was taken from Ready to run) when
\* the step ends.
C6_WakeAll ==
  [][\A r \in Ledger :
       (out' = "ok" /\ ReleasedNow(r))
         => \A p \in Admitted : PendingRequest(p, r) => Runnable(p)']_vars

\* C6 witness: a release has just been logged and is followed in the log by the
\* ready lines of two processes that no longer wait.
C6_Witness ==
  \E i \in 1..Len(log) :
    /\ i + 2 <= Len(log)
    /\ log[i].ev = "released"
    /\ log[i + 1].ev = "ready" /\ log[i + 2].ev = "ready"
    /\ log[i + 1].proc # log[i + 2].proc
    /\ prog[log[i + 1].proc] = <<Instr("REQ_OP", log[i].name)>>
    /\ prog[log[i + 2].proc] = <<Instr("REQ_OP", log[i].name)>>
    /\ ~InQueue(wq, log[i + 1].proc) /\ ~InQueue(wq, log[i + 2].proc)

\* The processes a step takes out of Waiting.
WokenNow == {p \in Range(QList(wq)) : ~InQueue(wq, p)'}

\* C7: in a step with a successful release, the processes taken out of Waiting get
\* their ready lines in the order they had in Waiting and stand in Ready in that
\* order, behind every process that was in Ready before (the releasing process,
\* taken from Ready at the start of the step, aside); when there are several, each
\* is in Ready or was taken from it to run; the processes left in Waiting keep
\* their order.
C7_WakeOrder ==
  [][(out' = "ok" /\ \E r \in Ledger : ReleasedNow(r)) =>
       /\ Restrict(QList(wq)', Range(QList(wq))) = Restrict(QList(wq), Range(QList(wq)'))
       /\ Restrict(QList(rq)', WokenNow)
            = Restrict(QList(wq), WokenNow \cap Range(QList(rq)'))
       /\ \A x \in Range(QList(rq)) \cap Range(QList(rq)'), w \in WokenNow \cap Range(QList(rq)') :
            (x \notin WokenNow /\ ~Releases(x)) => Index(QList(rq)', x) < Index(QList(rq)', w)
       /\ Cardinality(WokenNow) >= 2 => \A w \in WokenNow : Runnable(w)'
       /\ \A a \in WokenNow, b \in WokenNow :
            Index(QList(wq), a) < Index(QList(wq), b)
              => \E i \in (Len(log) + 1)..Len(log'), j \in (Len(log) + 1)..Len(log') :
                   /\ i < j
                   /\ log'[i] = Event("ready", a, NULL)
                   /\ log'[j] = Event("ready", b, NULL)]_vars

\* C7 witness: the pass of a release has just ended; the release woke two processes
\* in the order of their waiting lines, the first of them was taken to run or
\* stands in Ready before the second, and two other processes are still in
\* Waiting.
C7_Witness ==
  \E i \in 1..Len(log), a \in Admitted, b \in Admitted :
    /\ i + 2 <= Len(log) /\ Len(log) <= i + 3
    /\ log[i].ev = "released"
    /\ log[i + 1] = Event("ready", a, NULL) /\ log[i + 2] = Event("ready", b, NULL)
    /\ a # b
    /\ InQueue(rq, b)
    /\ \/ IsRunning(a)
       \/ InQueue(rq, a) /\ Index(QList(rq), a) < Index(QList(rq), b)
    /\ \E j \in 1..i, k \in 1..i :
         /\ j < k
         /\ log[j].ev = "waiting" /\ log[j].proc = a
         /\ log[k].ev = "waiting" /\ log[k].proc = b
    /\ ~InQueue(wq, a) /\ ~InQueue(wq, b)
    /\ Len(QList(wq)) >= 2

\* C8: under priority scheduling, when a pass ends with a process in the Running
\* slot in state RUNNING, no process in Ready has a priority above that process's.
C8_PriorityCorrect ==
  (sched = "PRIOR" /\ pc \in {"pri_top", "done"} /\ out = "ok"
     /\ cur # NULL /\ state[cur] = "RUNNING")
    => \A p \in Range(QList(rq)) : prio[cur] >= prio[p]

\* C8 witness: a pass has ended with a Running process and, in Ready, a process of
\* lower priority that has already executed: it was preempted.
C8_Witness ==
  /\ sched = "PRIOR" /\ pc = "pri_top" /\ out = "ok"
  /\ cur # NULL /\ state[cur] = "RUNNING"
  /\ \E p \in Range(QList(rq)) : prio[p] < prio[cur] /\ nexec[p] > 0

\* C9: under FCFS the process taken to run is the head of Ready; while it runs no
\* other process executes an instruction and it stays the current process; it
\* leaves the CPU only when a request has blocked it or its cursor is exhausted;
\* and Ready only grows at its tail meanwhile.
C9_FcfsOrder ==
  [][(sched = "FCFS" /\ out' = "ok") =>
       /\ (pc = "fcfs_top" /\ pc' = "fcfs_inner") =>
            cur' = rq.first /\ state'[cur'] = "RUNNING"
       /\ pc = "fcfs_inner" =>
            /\ \A p \in 1..nprocs : p # cur => nexec'[p] = nexec[p]
            /\ pc' = "fcfs_inner" => cur' = cur
            /\ pc' # "fcfs_inner" => state'[cur] = "WAITING" \/ ni[cur] > Len(prog[cur])
            /\ IsPrefix(QList(rq), QList(rq)')]_vars

\* C9 witness: under FCFS a process that has executed an instruction and has more
\* to execute is still the current one although another process arrived in Ready
\* after that instruction.
C9_Witness ==
  /\ sched = "FCFS" /\ pc = "fcfs_inner" /\ out = "ok"
  /\ cur # NULL /\ nexec[cur] >= 1 /\ ni[cur] <= Len(prog[cur])
  /\ rq.first # NULL
  /\ Len(log) >= 2 /\ log[Len(log)].ev = "ready" /\ log[Len(log) - 1].proc = cur

\* C10: when the scheduler has returned, every admitted process of a workload of
\* well-behaved processes (finite programs, every request resolvable) is
\* TERMINATED.
C10_Termination ==
  pc = "done" => \A p \in Admitted : state[p] = "TERMINATED"

\* ------------------------------------------- the scenarios of the specification
\* Scenario A: first come first served; process 1 = [Request R1, Release R1] and
\* process 2 = [Request R1] are both loaded before scheduling starts, in that
\* order, and no process arrives later (an arrival would log a ready line).
ScenarioA ==
  /\ sched = "FCFS"
  /\ prog[1] = <<Instr("REQ_OP", 1), Instr("REL_OP", 1)>>
  /\ prog[2] = <<Instr("REQ_OP", 1)>>
  /\ narr = 2 /\ ~HasEvent("ready")

\* The event order the specification lists for Scenario A.
ScenarioA_Listed ==
  <<Event("acquired", 1, 1), Event("released", 1, 1), Event("acquired", 2, 1),
    Event("terminated", 1, NULL), Event("terminated", 2, NULL)>>

\* The event order in which process 1 ends before process 2 starts.
ScenarioA_RunToEnd ==
  <<Event("acquired", 1, 1), Event("released", 1, 1), Event("terminated", 1, NULL),
    Event("acquired", 2, 1), Event("terminated", 2, NULL)>>

\* C11 as stated: in Scenario A, when the scheduler has returned both processes are
\* Terminated and the events were, in order: acquired(P1,R1), released(P1,R1),
\* acquired(P2,R1), terminated(P1), terminated(P2).
C11_ScenarioA_Listed ==
  ScenarioA /\ pc = "done"
    => /\ state[1] = "TERMINATED" /\ state[2] = "TERMINATED"
       /\ log = ScenarioA_Listed

\* C11 amended: in Scenario A the log is at every moment a prefix of acquired(P1,R1),
\* released(P1,R1), terminated(P1), acquired(P2,R1), terminated(P2); when the
\* scheduler has returned the log is that whole sequence and both processes are in
\* Terminated, P1 before P2; and the scheduler does return.
C11_ScenarioA ==
  /\ [](ScenarioA => IsPrefix(log, ScenarioA_RunToEnd))
  /\ [](ScenarioA /\ pc = "done"
          => /\ log = ScenarioA_RunToEnd
             /\ state[1] = "TERMINATED" /\ state[2] = "TERMINATED"
             /\ QList(tq) = <<1, 2>>)
  /\ [](ScenarioA /\ out = "ok" /\ pc # "done" => ENABLED Next)

\* C11 witness: Scenario A has run to its end.
C11_Witness ==
  ScenarioA /\ pc = "done" /\ Len(log) = 5 /\ state[2] = "TERMINATED"

\* Scenario B: priority scheduling; process 1 = [Request R1, Release R1] is loaded
\* alone, process 2, of higher priority and with Request R1 as its first
\* instruction, arrives at the poll that follows process 1's request, that is while
\* process 1 holds R1; nobody else arrives.
ScenarioB ==
  /\ sched = "PRIOR"
  /\ prog[1] = <<Instr("REQ_OP", 1), Instr("REL_OP", 1)>>
  /\ prog[2] = <<Instr("REQ_OP", 1)>>
  /\ prio[1] < prio[2]
  /\ narr = 2
  /\ Len(log) >= 2 /\ log[1] = Event("acquired", 1, 1) /\ log[2] = Event("ready", 2, NULL)

\* The events of Scenario B.
ScenarioB_Run ==
  <<Event("acquired", 1, 1), Event("ready", 2, NULL), Event("ready", 1, NULL),
    Event("waiting", 2, 1), Event("released", 1, 1), Event("ready", 2, NULL),
    Event("ready", 1, NULL), Event("acquired", 2, 1), Event("terminated", 2, NULL),
    Event("terminated", 1, NULL)>>

\* C12: in Scenario B process 2 never holds R1 while process 1 holds it; once its
\* request is turned down it is in Waiting, and nowhere else, for as long as process
\* 1 holds R1; the release makes it Ready and it is the one that runs next and
\* acquires R1 (the log is always a prefix of: acquired P1, ready P2, ready P1,
\* waiting P2, released P1, ready P2, ready P1, acquired P2, terminated P2,
\* terminated P1); when the scheduler has returned both are Terminated, and no
\* deadlock is ever reported.
C12_ScenarioB ==
  /\ [](ScenarioB => /\ IsPrefix(log, ScenarioB_Run)
                     /\ ~HasEvent("deadlock detected") /\ out = "ok")
  /\ [](ScenarioB /\ 1 \in Holders(1)
          => /\ 2 \notin Holders(1)
             /\ HasEvent("waiting")
                  => state[2] = "WAITING" /\ QList(wq) = <<2>> /\ ~InQueue(rq, 2))
  /\ [](ScenarioB /\ HasEvent("released") /\ Holders(1) = {} => IsRunning(2))
  /\ [](ScenarioB /\ pc = "done"
          => /\ log = ScenarioB_Run
             /\ state[1] = "TERMINATED" /\ state[2] = "TERMINATED")

\* C12 witness: Scenario B has run to its end, process 2 having waited for R1 and
\* acquired it after the release.
C12_Witness ==
  /\ ScenarioB /\ pc = "done" /\ Len(log) = 10
  /\ log[4] = Event("waiting", 2, 1) /\ log[8] = Event("acquired", 2, 1)

\* Scenario C: processes 1 and 2 hold R1 and R2 respectively, nothing else, and each
\* is in state WAITING with the request for the other's resource at its cursor.
ScenarioC ==
  /\ sched = "PRIOR" /\ nprocs = 2
  /\ held[1] = <<1>> /\ held[2] = <<2>>
  /\ state[1] = "WAITING" /\ HasInstr(St, 1) /\ NextInstr(St, 1) = Instr("REQ_OP", 2)
  /\ state[2] = "WAITING" /\ HasInstr(St, 2) /\ NextInstr(St, 2) = Instr("REQ_OP", 1)

\* C13: in Scenario C the pass that brings the second process to wait ends with
\* Ready empty, both processes in Waiting, exactly one deadlock event logged and
\* the scheduler returned; no step leaves that state, so neither process is ever
\* Terminated.
C13_ScenarioC ==
  /\ [](ScenarioC
          => /\ pc = "done" /\ out = "ok"
             /\ rq.first = NULL /\ \A p \in 1..nprocs : ~IsRunning(p)
             /\ Range(QList(wq)) = {1, 2} /\ ~Cyclic(wq)
             /\ CountEvent("deadlock detected") = 1
             /\ log[Len(log)].ev = "deadlock detected"
             /\ QList(tq) = <<>>)
  /\ [][~ScenarioC]_vars

\* C13 witness: the two processes wait for each other and the scheduler has
\* stopped on the deadlock.
C13_Witness ==
  ScenarioC /\ pc = "done" /\ HasEvent("deadlock detected") /\ nexec[1] = 2 /\ nexec[2] = 2

\* ------------------------------------------- reading one instruction
\* The record at the moment the scheduler is about to call execute_instr: at the top
\* of a priority pass once the selection is made, in the FCFS inner loop as it is.
Dispatched == IF pc = "pri_top" THEN pri_select(St) ELSE St

\* The scheduler is about to execute instruction instr of the Running process p.
AboutToExecute(p, instr) ==
  /\ pc \in {"pri_top", "fcfs_inner"} /\ Live
  /\ Ok(Dispatched)
  /\ p # NULL /\ Dispatched.cur = p /\ Dispatched.state[p] = "RUNNING"
  /\ HasInstr(Dispatched, p) /\ NextInstr(Dispatched, p) = instr

\* The record when execute_instr has returned.
Executed(p) == execute_instr(Dispatched, p, TRUE)

\* What a record says of the queues and of the states of the processes.
QueueView(s) == [rq |-> s.rq, wq |-> s.wq, tq |-> s.tq, nxt |-> s.nxt,
                 state |-> s.state, cur |-> s.cur]

\* The step logs this event.
LoggedNow(e) == \E i \in (Len(log) + 1)..Len(log') : log'[i] = e

\* C14: when the Running process p executes Release(r) with r not in its held list
\* (held by nobody, held by another process, or not a name of the ledger), the
\* instruction only appends the release-error line for (p, r): no ledger flag, no
\* held list, no queue, no link and no process state changes; and in the step in
\* which the error is logged the cursor of p moves to its next instruction.
C14_ReleaseError ==
  /\ [](\A p \in 1..nprocs, r \in Ledger \cup {Mailbox} :
          AboutToExecute(p, Instr("REL_OP", r)) /\ p \notin Holders(r)
            => /\ Executed(p).log = Append(log, Event("release error", p, r))
               /\ Executed(p).avail = avail
               /\ Executed(p).held = held
               /\ QueueView(Executed(p)) = QueueView(Dispatched)
               /\ Executed(p).ni = ni
               /\ Executed(p).out = "ok")
  /\ [][\A p \in 1..nprocs, r \in Ledger \cup {Mailbox} :
          LoggedNow(Event("release error", p, r))
            => /\ ni'[p] = ni[p] + 1
               /\ avail' = avail /\ held' = held
               /\ ~LoggedNow(Event("released", p, r))]_vars

\* C15: a run asked for as RR is a run of the FCFS loop: its first step enters
\* schedule_fcfs with nothing else changed, every later step is a step of that loop
\* (the dequeue of the head of Ready, or one turn of the inner loop with one poll
\* for arrivals), so it is never in the priority loop, and it stops only where the
\* FCFS loop stops (Ready empty).  No quantum is part of the state: the code never
\* reads it.
C15_RRisFCFS ==
  /\ [](sched = "RR" => pc \in {"start", "fcfs_top", "fcfs_inner", "done"})
  /\ [](sched = "RR" /\ pc = "done" => rq.first = NULL /\ cur = NULL)
  /\ [][sched = "RR" =>
          \/ pc = "start" /\ St' = [St EXCEPT !.pc = "fcfs_top"]
          \/ pc = "fcfs_top" /\ St' = fcfs_select(St)
          \/ pc = "fcfs_inner" /\ \E arrives \in Arrivals : St' = fcfs_step(St, arrives)]_vars

\* C15 witness: a run asked for as RR has run a process to its end, as FCFS does,
\* while another process stood in Ready.
C15_Witness ==
  /\ sched = "RR" /\ pc = "fcfs_top"
  /\ HasEvent("terminated") /\ rq.first # NULL /\ HasEvent("released")

\* C16: when the Running process p executes Request(r) with r a resource of the
\* ledger that is available, the instruction marks r unavailable and no other
\* record, puts r at the head of p's held list and changes no other list, appends
\* the acquired line for (p, r) and nothing else to the log, and changes no queue,
\* no link and no process state: p is still the Running process.  The step in
\* which an acquired line for (p, r) is logged found r available, leaves it
\* unavailable with r at the head of p's list, and moves p's cursor on.
C16_RequestAvailable ==
  /\ [](\A p \in 1..nprocs, r \in Ledger :
          AboutToExecute(p, Instr("REQ_OP", r)) /\ avail[r]
            => /\ Executed(p).avail = [avail EXCEPT ![r] = FALSE]
               /\ Executed(p).held = [held EXCEPT ![p] = <<r>> \o held[p]]
               /\ Executed(p).log = Append(log, Event("acquired", p, r))
               /\ QueueView(Executed(p)) = QueueView(Dispatched)
               /\ Executed(p).cur = p /\ Executed(p).state[p] = "RUNNING"
               /\ Executed(p).out = "ok")
  /\ [][\A p \in 1..nprocs, r \in Ledger :
          LoggedNow(Event("acquired", p, r))
            => /\ avail[r] /\ avail' = [avail EXCEPT ![r] = FALSE]
               /\ held' = [held EXCEPT ![p] = <<r>> \o held[p]]
               /\ ni'[p] = ni[p] + 1]_vars

\* C16 witness: a process that already holds a resource has acquired a second one,
\* which stands at the head of its list, and is still Running.
C16_Witness ==
  \E p \in 1..nprocs, r \in Ledger :
    /\ log # <<>> /\ log[Len(log)] = Event("acquired", p, r)
    /\ Len(held[p]) = 2 /\ held[p][1] = r
    /\ IsRunning(p) /\ ~avail[r]

\* The list a record's queue holds, read as QList reads the current state's.
ListOf(s, q) == Walk(s.nxt, Queue(s, q).first, {})

\* C17: when the Running process p executes Request(r) with r unavailable (held by
\* another process or by p itself) or not a name of the ledger, the instruction
\* changes no ledger flag and no held list, sets the state of p, and of no other
\* process, to WAITING, makes Waiting its former list followed by p, with Ready and
\* Terminated as they were, and appends the waiting line for (p, r) and nothing
\* else to the log; the step in which that line is logged logs it once and leaves p
\* once in Waiting, as its last member.
C17_RequestUnavailable ==
  /\ [](\A p \in 1..nprocs, r \in Ledger \cup {Mailbox} :
          AboutToExecute(p, Instr("REQ_OP", r)) /\ (r \in Ledger => ~avail[r])
            => /\ Executed(p).out = "ok"
               /\ Executed(p).avail = avail
               /\ Executed(p).held = held
               /\ Executed(p).state = [Dispatched.state EXCEPT ![p] = "WAITING"]
               /\ ListOf(Executed(p), "wq") = Append(ListOf(Dispatched, "wq"), p)
               /\ Executed(p).wq.last = p /\ Executed(p).nxt[p] = NULL
               /\ ListOf(Executed(p), "rq") = ListOf(Dispatched, "rq")
               /\ ListOf(Executed(p), "tq") = ListOf(Dispatched, "tq")
               /\ Executed(p).log = Append(log, Event("waiting", p, r)))
  /\ [][\A p \in 1..nprocs, r \in Ledger \cup {Mailbox} :
          LoggedNow(Event("waiting", p, r))
            => /\ Cardinality({i \in (Len(log) + 1)..Len(log') :
                                 log'[i] = Event("waiting", p, r)}) = 1
               /\ avail' = avail /\ held' = held
               /\ ~Cyclic(wq)' /\ QList(wq)' # <<>>
               /\ QList(wq)'[Len(QList(wq)')] = p]_vars

\* The record of a priority pass at the point where the loop's body is done and
\* the exits (lines 238-248) are still to be taken.
BeforeExits(arrives) == pri_body(pri_select(St), arrives)

\* What the claim says stays as it was: ledger flags, held lists, cursors, and who
\* is in Waiting and in Terminated, in which order and state.
Frozen(s) ==
  [avail |-> s.avail, held |-> s.held, ni |-> s.ni, nexec |-> s.nexec,
   wq |-> ListOf(s, "wq"), tq |-> ListOf(s, "tq"), state |-> s.state]

\* C18: when the exits of a priority pass report a deadlock, the report changes
\* nothing of the ledger flags, the held lists, the cursors, the states and the
\* lists of Waiting and Terminated: they are what the body of the pass left (no
\* held resource is given back, no process is reset or moved), and the log grows by
\* the deadlock line only; the scheduler has then returned and no step follows, so
\* they stay so.
C18_DeadlockFrame ==
  /\ [](pc = "pri_top" /\ Live /\ (rq.first # NULL \/ wq.first # NULL \/ cur # NULL)
          => \A arrives1, arrives2 \in Arrivals :
               LET b == BeforeExits(arrives1)
                   e == pri_exits(b, arrives2)
               IN  Ok(e) /\ e.log # b.log /\ e.log[Len(e.log)].ev = "deadlock detected"
                     => /\ Frozen(e) = Frozen(b)
                        /\ e.log = Append(b.log, Event("deadlock detected", NULL, NULL))
                        /\ e.pc = "done")
  /\ [](HasEvent("deadlock detected") => pc = "done")
  /\ [][~HasEvent("deadlock detected")]_vars

\* C18 witness: the scheduler has stopped on a deadlock with a waiting process that
\* still holds a resource and has executed more than one instruction.
C18_Witness ==
  /\ pc = "done" /\ HasEvent("deadlock detected")
  /\ \E p \in 1..nprocs :
       state[p] = "WAITING" /\ InQueue(wq, p) /\ held[p] # <<>> /\ ni[p] > 1

\* ------------------------------------------- reading one priority pass
\* The pass takes the processor from p: p is the process the pass runs, and the
\* pass moves it to Ready and ends with another process as current process.
Preempted(p) ==
  /\ pc = "pri_top" /\ Live /\ Ok(Dispatched)
  /\ Dispatched.cur = p /\ Dispatched.state[p] = "RUNNING"
  /\ LoggedNow(Event("ready", p, NULL))
  /\ cur' # p /\ out' = "ok"

\* C19: a priority pass that preempts process p has first executed p's instruction
\* to its end (p was not turned down by it) and moved p's cursor to the next
\* instruction; the preemption leaves p's held list as the instruction left it, sets
\* p READY and makes it the last member of Ready, where it is once and in no other
\* queue; and while a process is not the one a pass runs, its cursor and its held
\* list do not change, so it resumes at that instruction.
C19_PreemptAtBoundary ==
  /\ [][\A p \in 1..nprocs :
          Preempted(p)
            => /\ HasInstr(Dispatched, p)
               /\ Executed(p).state[p] = "RUNNING"
               /\ ni'[p] = ni[p] + 1 /\ nexec'[p] = nexec[p] + 1
               /\ held'[p] = Executed(p).held[p]
               /\ state'[p] = "READY"
               /\ QList(rq)' # <<>> /\ QList(rq)'[Len(QList(rq)')] = p
               /\ Cardinality({i \in 1..Len(QList(rq)') : QList(rq)'[i] = p}) = 1
               /\ ~InQueue(wq, p)' /\ ~InQueue(tq, p)']_vars
  /\ [][\A p \in 1..nprocs :
          pc = "pri_top" /\ Dispatched.cur # p /\ out' = "ok"
            => ni'[p] = ni[p] /\ held'[p] = held[p] /\ nexec'[p] = nexec[p]]_vars

\* The pass moves the process it runs back to Ready.
BackToReady(p) ==
  /\ pc = "pri_top" /\ Live /\ Ok(Dispatched)
  /\ Dispatched.cur = p /\ Dispatched.state[p] = "RUNNING"
  /\ LoggedNow(Event("ready", p, NULL))
  /\ out' = "ok"

\* C20: a priority pass moves the process p it runs back to Ready only for a
\* process of strictly greater priority: the pass then ends with another process q
\* Running, prio[q] > prio[p], and q came from Ready (it stood there when the pass
\* began, or arrived or was woken during the pass).  So with no Ready process of
\* greater priority at the end of the pass's body, p keeps the processor.
C20_PreemptOnlyHigher ==
  [][\A p \in 1..nprocs :
       BackToReady(p)
         => /\ cur' # NULL /\ cur' # p
            /\ prio[cur'] > prio[p]
            /\ state'[cur'] = "RUNNING"
            /\ \/ InQueue(rq, cur')
               \/ cur' > narr
               \/ InQueue(wq, cur')]_vars

\* C20 witness: a process has been preempted by a process of greater priority,
\* while a process of its own priority stood in Ready and did not get the processor.
C20_Witness ==
  \E p, q, e \in 1..nprocs :
    /\ sched = "PRIOR" /\ pc = "pri_top" /\ p # q /\ e # p /\ e # q
    /\ log # <<>> /\ log[Len(log)] = Event("ready", p, NULL)
    /\ IsRunning(q) /\ prio[q] > prio[p]
    /\ prio[e] = prio[p] /\ InQueue(rq, e) /\ InQueue(rq, p) /\ nexec[e] = 0
    /\ nexec[p] > 0

\* The position in l of the first process whose priority no process of l exceeds.
FirstHighest(l) ==
  CHOOSE i \in 1..Len(l) :
    /\ \A j \in 1..Len(l) : prio[l[j]] <= prio[l[i]]
    /\ \A j \in 1..(i - 1) : prio[l[j]] < prio[l[i]]

\* C21: at the top of a priority pass with no current process and Ready not empty,
\* the selection takes the process of Ready that no Ready process outranks and that
\* stands before every other process of that priority; it makes it the current
\* process in state RUNNING, takes exactly it out of Ready (the others keep their
\* order), and changes no other process's state and no other queue.
C21_SelectHighestFirst ==
  (sched = "PRIOR" /\ pc = "pri_top" /\ Live /\ cur = NULL /\ rq.first # NULL)
    => LET l == QList(rq)
           s == pri_select(St)
       IN  /\ Ok(s)
           /\ s.cur = l[FirstHighest(l)]
           /\ s.state = [state EXCEPT ![s.cur] = "RUNNING"]
           /\ ListOf(s, "rq") = RemoveAt(l, FirstHighest(l))
           /\ ListOf(s, "wq") = QList(wq) /\ ListOf(s, "tq") = QList(tq)
           /\ s.nxt[s.cur] = NULL

\* How many of the lines the step logs are this event.
LoggedTimes(e) == Cardinality({i \in (Len(log) + 1)..Len(log') : log'[i] = e})

\* C22: a step in which the Running process p executes a Send (a Receive) on mailbox
\* m logs exactly one send (recv) event, naming p and m.
C22_SendRecvLogged ==
  [][\A p \in 1..nprocs, m \in Ledger \cup {Mailbox} :
       /\ AboutToExecute(p, Instr("SEND_OP", m)) /\ nexec'[p] = nexec[p] + 1
            => LoggedTimes(Event("send", p, m)) = 1
       /\ AboutToExecute(p, Instr("RECV_OP", m)) /\ nexec'[p] = nexec[p] + 1
            => LoggedTimes(Event("recv", p, m)) = 1]_vars

\* ------------------------------------------- allocation failure
\* The scheduler calls execute_instr for a request of an available resource and
\* malloc fails in request_resource.
OutOfMemory ==
  /\ \E p \in 1..nprocs, r \in Ledger :
       /\ AboutToExecute(p, Instr("REQ_OP", r)) /\ avail[r]
       /\ Commit(request_resource_nomem([Dispatched EXCEPT !.nexec[p] = @ + 1], p,
                                        Instr("REQ_OP", r)))
  /\ Static

NextAlloc == Schedule \/ PriPass \/ FcfsSelect \/ FcfsStep \/ OutOfMemory

\* The scenarios of two processes, with malloc free to fail at any request.
SpecAlloc == InitPair /\ [][NextAlloc]_vars

\* A resource the ledger marks unavailable although no process's list holds it.
Lost(r) == ~avail[r] /\ Holders(r) = {}

\* C23: when malloc fails in a request the program is ended: no step follows, so no
\* process executes a further instruction; and as long as the program runs, no
\* resource is marked unavailable in the ledger with no process's held list
\* containing it.
C23_AllocFailureAborts ==
  /\ [](out = "ok" => \A r \in Ledger : ~Lost(r))
  /\ [](out = "exit" => pc # "done")
  /\ [][out # "exit"]_vars

\* C23 witness: malloc has failed at the request of a process that had already
\* executed an instruction; the resource is marked unavailable and nobody holds
\* it, and the program has ended.
C23_Witness ==
  /\ out = "exit"
  /\ \E r \in Ledger : Lost(r)
  /\ \E p \in 1..nprocs : nexec[p] >= 2

\* C24: an FCFS step in which the request of the Running process p for r is turned
\* down logs the waiting line for (p, r) once, and leaves p once in Waiting, as its
\* last member, with a list that ends (p is not linked behind itself).
C24_FcfsBlocksOnce ==
  [][\A p \in 1..nprocs, r \in Ledger \cup {Mailbox} :
       (sched = "FCFS" /\ AboutToExecute(p, Instr("REQ_OP", r))
          /\ (r \in Ledger => ~avail[r]) /\ out' = "ok")
         => /\ LoggedTimes(Event("waiting", p, r)) = 1
            /\ state'[p] = "WAITING"
            /\ ~Cyclic(wq)'
            /\ QList(wq)' = Append(QList(wq), p)
            /\ nxt'[p] = NULL]_vars

\* C25: a priority pass in which the request of the Running process p for r is
\* turned down ends with p in state WAITING, in Waiting and not in Ready, not
\* Running, and logs no ready line for p, whatever arrives during the pass and
\* whatever stands in Ready.
C25_BlockedNotPreempted ==
  [][\A p \in 1..nprocs, r \in Ledger \cup {Mailbox} :
       (sched = "PRIOR" /\ AboutToExecute(p, Instr("REQ_OP", r))
          /\ (r \in Ledger => ~avail[r]) /\ out' = "ok")
         => /\ state'[p] = "WAITING"
            /\ ~IsRunning(p)'
            /\ InQueue(wq, p)' /\ ~InQueue(rq, p)'
            /\ ~LoggedNow(Event("ready", p, NULL))
            /\ LoggedTimes(Event("waiting", p, r)) = 1]_vars

\* C26: a priority pass in which the process P it runs releases a resource and
\* thereby takes out of Waiting a process of strictly greater priority ends, with
\* or without an arrival during the pass, with P in state READY in Ready and
\* another process Running whose priority exceeds P's and which no process of Ready
\* outranks; P has executed the release and nothing more.
C26_WakePreempts ==
  [][\A p \in 1..nprocs :
       (sched = "PRIOR" /\ pc = "pri_top" /\ Ok(Dispatched) /\ Dispatched.cur = p
          /\ Releases(p) /\ out' = "ok"
          /\ \E w \in WokenNow : prio[w] > prio[p])
         => /\ cur' # NULL /\ cur' # p
            /\ state'[cur'] = "RUNNING" /\ prio[cur'] > prio[p]
            /\ \A q \in Range(QList(rq)') : prio[q] <= prio[cur']
            /\ state'[p] = "READY" /\ InQueue(rq, p)'
            /\ nexec'[p] = nexec[p] + 1 /\ ni'[p] = ni[p] + 1]_vars

\* C27: a step with a successful release of r leaves in Waiting, in state WAITING
\* and with no ready line, every process that was there in state WAITING with, at
\* its cursor, a request for another resource that is still unavailable when the
\* step ends, whatever its later instructions are.
C27_WakeByNextOnly ==
  [][\A r \in Ledger, p \in 1..nprocs :
       (ReleasedNow(r) /\ out' = "ok"
          /\ InQueue(wq, p) /\ state[p] = "WAITING" /\ HasInstr(St, p)
          /\ NextInstr(St, p).type = "REQ_OP" /\ NextInstr(St, p).name # r
          /\ NextInstr(St, p).name \in Ledger /\ ~avail'[NextInstr(St, p).name])
         => /\ InQueue(wq, p)' /\ state'[p] = "WAITING"
            /\ ~LoggedNow(Event("ready", p, NULL))]_vars

\* A request that finds its resource unavailable.
Blocks(instr) ==
  instr.type = "REQ_OP" /\ ~(instr.name \in Ledger /\ avail[instr.name])

\* C28: in every step that ends in order, a process executes at most one
\* instruction, the one at its cursor; its cursor then moves on by one, or stays
\* if that instruction is a request that blocks; the cursor of a process that
\* executes nothing stays. So no instruction is skipped, and a process whose
\* program has no request has executed each instruction before its cursor once.
C28_CursorInOrder ==
  /\ [][out' = "ok" =>
          \A p \in 1..nprocs :
            /\ nexec'[p] \in {nexec[p], nexec[p] + 1}
            /\ nexec'[p] = nexec[p] => ni'[p] = ni[p]
            /\ nexec'[p] = nexec[p] + 1 =>
                 /\ HasInstr(St, p) /\ AboutToExecute(p, NextInstr(St, p))
                 /\ ni'[p] = IF Blocks(NextInstr(St, p)) THEN ni[p] ELSE ni[p] + 1]_vars
  /\ [](\A p \in 1..nprocs :
          /\ ni[p] \in 1..(Len(prog[p]) + 1) /\ nexec[p] >= ni[p] - 1
          /\ (out = "ok" /\ \A i \in 1..Len(prog[p]) : prog[p][i].type # "REQ_OP")
               => nexec[p] = ni[p] - 1)

\* A process that blocked on its request, was woken, executed the same request
\* again and then its release has terminated.
C28_Witness ==
  \E p \in 1..nprocs :
    /\ state[p] = "TERMINATED" /\ Len(prog[p]) = 2 /\ nexec[p] = 3 /\ ni[p] = 3
    /\ \E i \in 1..Len(log) : log[i] = Event("waiting", p, prog[p][1].name)
    /\ out = "ok"

\* new is what is left of old, in the order of old, followed by processes that were
\* not in old, each once.
AppendedTo(old, new) ==
  LET kept == Restrict(old, Range(new))
  IN  /\ IsPrefix(kept, new)
      /\ \A i \in (Len(kept) + 1)..Len(new) :
           new[i] \notin Range(old) /\ \A j \in (Len(kept) + 1)..Len(new) : new[j] = new[i] => j = i

\* C29: under FCFS no enqueue faults, and in every step that ends in order the
\* dequeue of schedule_fcfs returns the head of Ready and leaves its tail, with
\* Waiting and Terminated as they were; a turn of the inner loop only appends to
\* Ready and to Terminated, and only appends to what it leaves of Waiting, and no
\* list is left without an end. In every state, on a queue that is empty
\* dequeue_pcb returns NULL and changes nothing.
C29_QueueFifo ==
  /\ [][(sched = "FCFS" /\ Live) =>
          /\ out' # "crashed"
          /\ (out' = "ok" /\ pc = "fcfs_top" /\ rq.first # NULL) =>
               /\ cur' = Head(QList(rq)) /\ QList(rq)' = Tail(QList(rq))
               /\ nxt'[cur'] = NULL
               /\ QList(wq)' = QList(wq) /\ QList(tq)' = QList(tq)
          /\ (out' = "ok" /\ pc = "fcfs_inner") =>
               /\ IsPrefix(QList(rq), QList(rq)') /\ AppendedTo(QList(rq), QList(rq)')
               /\ IsPrefix(QList(tq), QList(tq)') /\ AppendedTo(QList(tq), QList(tq)')
               /\ AppendedTo(QList(wq), QList(wq)')
               /\ ~Cyclic(rq)' /\ ~Cyclic(wq)' /\ ~Cyclic(tq)']_vars
  /\ [](\A q \in {"rq", "wq", "tq"} :
          (Ok(St) /\ Queue(St, q).first = NULL)
            => dequeue_proc(St, q) = NULL /\ dequeue_pcb(St, q) = St)

\* The last node of queue q of record s is the one its last pointer names (NULL for
\* the empty list), so that the next enqueue_pcb links behind it.
LastIsTail(s, q) ==
  LET l == ListOf(s, q)
  IN  Queue(s, q).last = IF l = <<>> THEN NULL ELSE l[Len(l)]

\* The waiters that the scan of move_waiting_pcbs_to_rq for resource r matches.
Matched(r) ==
  {w \in Range(QList(wq)) : is_waiting_for_resource(St, w, r)}

\* C30: at a priority selection, remove_proc_from_readyq takes the selected
\* process, and it alone, out of Ready, the others keeping their order, and
\* enqueue_pcb of a process that is not in Ready then puts it behind the new last
\* one. In a step with a successful release of r that ends in order, the waiters
\* with a pending request for r, and they alone, leave Waiting, the others keep
\* their order, and enqueue_pcb of a process that is not in Waiting then puts it
\* behind the new last one.
C30_RemoveKeepsOrder ==
  /\ []((sched = "PRIOR" /\ pc = "pri_top" /\ Live /\ cur = NULL /\ rq.first # NULL)
          => LET p == find_highest_priority_proc(St)
                 s == remove_proc_from_readyq(St, p)
                 l == QList(rq)
             IN  /\ Ok(s) /\ p \in Range(l)
                 /\ ListOf(s, "rq") = RemoveAt(l, Index(l, p))
                 /\ LastIsTail(s, "rq")
                 /\ \A x \in (1..nprocs) \ Range(ListOf(s, "rq")) :
                      ListOf(enqueue_pcb(s, x, "rq"), "rq") = Append(ListOf(s, "rq"), x))
  /\ [][\A r \in Ledger :
          (ReleasedNow(r) /\ out' = "ok")
            => /\ QList(wq)' = Restrict(QList(wq), Range(QList(wq)) \ Matched(r))
               /\ LastIsTail(St, "wq")'
               /\ \A x \in (1..nprocs) :
                    x \notin Range(QList(wq)')
                      => ListOf(enqueue_pcb(St, x, "wq"), "wq")' = Append(QList(wq)', x)]_vars

\* C31: in no state with the deadlock line in the log is there a process that
\* occupies the Running slot in state RUNNING with an instruction at its cursor.
C31_NoDeadlockWhileRunning ==
  HasEvent("deadlock detected")
    => \A p \in 1..nprocs : ~(IsRunning(p) /\ HasInstr(St, p))

\* The next priority pass calls execute_instr with a NULL instruction: the process
\* it runs has no instruction at its cursor (line 189).
NullInstrCall ==
  /\ pc = "pri_top" /\ Live /\ Ok(Dispatched)
  /\ Dispatched.cur # NULL /\ Dispatched.state[Dispatched.cur] = "RUNNING"
  /\ ~HasInstr(Dispatched, Dispatched.cur)

\* C32: a process that has executed its last instruction is never READY nor in
\* Ready, and once the scheduler has returned it is TERMINATED; no priority pass
\* calls execute_instr with a NULL instruction; and under FCFS the turn of the inner
\* loop that finds the cursor at the end moves the process to Terminated.
C32_ExhaustedTerminates ==
  /\ [](\A p \in Admitted :
          (out = "ok" /\ nexec[p] > 0 /\ ~HasInstr(St, p))
            => /\ state[p] # "READY" /\ ~InQueue(rq, p)
               /\ pc = "done" => state[p] = "TERMINATED")
  /\ [](~NullInstrCall)
  /\ [][\A p \in 1..nprocs :
          (sched = "FCFS" /\ pc = "fcfs_inner" /\ Live /\ cur = p /\ ~HasInstr(St, p)
             /\ out' = "ok")
            => state'[p] = "TERMINATED" /\ InQueue(tq, p)']_vars

\* C33: in every state at most one process has state RUNNING, every process in
\* the list of Waiting has state WAITING, every process in the list of Terminated
\* has state TERMINATED and every process in the list of Ready has state READY.
C33_StateMatchesQueue ==
  out = "ok" =>
    /\ Cardinality({p \in 1..nprocs : state[p] = "RUNNING"}) <= 1
    /\ \A p \in Range(QList(wq)) : state[p] = "WAITING"
    /\ \A p \in Range(QList(tq)) : state[p] = "TERMINATED"
    /\ \A p \in Range(QList(rq)) : state[p] = "READY"

\* The number of terminated lines of process p in the log.
TerminatedLines(p) ==
  Cardinality({i \in 1..Len(log) : log[i] = Event("terminated", p, NULL)})

\* C34: a process in state TERMINATED keeps that state in every step, stays in
\* the list of Terminated behind the same processes, is not the current process
\* after the step, and its cursor and its count of executed instructions do not
\* change; and in every state a process has one terminated line in the log if it
\* is TERMINATED and none otherwise.
C34_TerminatedAbsorbing ==
  /\ [][\A p \in 1..nprocs :
          state[p] = "TERMINATED"
            => /\ state'[p] = "TERMINATED"
               /\ cur' # p /\ nexec'[p] = nexec[p] /\ ni'[p] = ni[p]
               /\ InQueue(tq, p) /\ IsPrefix(QList(tq), QList(tq)')
               /\ ~InQueue(rq, p)']_vars
  /\ [](\A p \in 1..nprocs :
          TerminatedLines(p) = IF state[p] = "TERMINATED" THEN 1 ELSE 0)

\* Two processes are in Terminated, the first for at least two steps, with a
\* process that had to wait among them.
C34_Witness ==
  /\ Len(QList(tq)) >= 2 /\ out = "ok"
  /\ \A p \in Range(QList(tq)) : state[p] = "TERMINATED" /\ TerminatedLines(p) = 1
  /\ \E i \in 1..Len(log) : log[i].ev = "waiting" /\ log[i].proc \in Range(QList(tq))
  /\ \E i \in 1..(Len(log) - 2) : log[i].ev = "terminated"

\* The nodes of name r in the held lists of all processes.
HeldNodes(r) ==
  UNION {{<<p, i>> : i \in {j \in DOMAIN held[p] : held[p][j] = r}} : p \in 1..nprocs}

\* C35: in every state of a running or returned scheduler, a resource of the
\* ledger is marked unavailable exactly when one node of one process's held list
\* names it, and available exactly when no node does, whatever the state of the
\* holder.
C35_LedgerAgreesWithHeld ==
  out = "ok" =>
    \A r \in Ledger :
      /\ ~avail[r] <=> Cardinality(HeldNodes(r)) = 1
      /\ avail[r] <=> Cardinality(HeldNodes(r)) = 0

\* A terminated process still holds one resource while the other, once held and
\* released, is available again.
C35_Witness ==
  /\ out = "ok"
  /\ \E p \in 1..nprocs, r \in Ledger :
       state[p] = "TERMINATED" /\ Holders(r) = {p} /\ ~avail[r]
  /\ \E r \in Ledger, i \in 1..Len(log) :
       avail[r] /\ log[i].ev = "released" /\ log[i].name = r

\* C36: in every state between two instructions of a running or returned
\* scheduler, no process that has state WAITING or is in the list of Waiting has
\* at its cursor a request for a resource of the ledger that is available.
C36_NoLostWakeup ==
  out = "ok" =>
    \A p \in 1..nprocs, r \in Ledger :
      ((state[p] = "WAITING" \/ InQueue(wq, p))
         /\ HasInstr(St, p) /\ NextInstr(St, p) = Instr("REQ_OP", r))
        => ~avail[r]

\* The step moves process p to Terminated.
TerminatedNow(p) == state[p] # "TERMINATED" /\ state'[p] = "TERMINATED"

\* C37: a step that moves a process to Terminated changes no ledger flag and no
\* held list, and every process that was WAITING is WAITING after it, is not the
\* current process and gets no ready line; a TERMINATED process keeps its held
\* list in every step, and in every state each resource in the held list of a
\* TERMINATED process is unavailable.
C37_TerminationFrame ==
  /\ [][\A p \in 1..nprocs :
          (TerminatedNow(p) /\ out' = "ok")
            => /\ avail' = avail /\ held' = held
               /\ \A w \in 1..nprocs :
                    state[w] = "WAITING"
                      => /\ state'[w] = "WAITING" /\ cur' # w
                         /\ ~LoggedNow(Event("ready", w, NULL))]_vars
  /\ [][\A p \in 1..nprocs : state[p] = "TERMINATED" => held'[p] = held[p]]_vars
  /\ [](\A p \in 1..nprocs :
          state[p] = "TERMINATED" => \A r \in Range(held[p]) : r \in Ledger /\ ~avail[r])

\* A process has terminated holding a resource that another process waits for,
\* and the scheduler has gone on for at least one step since.
C37_Witness ==
  /\ out = "ok"
  /\ \E p, w \in 1..nprocs, r \in Ledger :
       /\ state[p] = "TERMINATED" /\ r \in Range(held[p])
       /\ state[w] = "WAITING" /\ InQueue(wq, w) /\ PendingRequest(w, r)
       /\ \E i \in 1..(Len(log) - 1) : log[i] = Event("terminated", p, NULL)

\* C38: every state short of the scheduler's return (and of the log bound) is one
\* from which the scheduler takes its next step: no traversal of a queue goes on
\* for ever and none ends in a fault.
C38_SchedulerReturns ==
  (pc # "done" /\ Len(log) < MaxLog) => out = "ok"

\* C39: in every state of a running or returned scheduler, the list of each of the
\* three queues ends (the walk from first reaches NULL without meeting a node
\* twice), last names its final node, and first is NULL exactly when last is.
C39_QueuesWellFormed ==
  out = "ok" =>
    \A q \in {"rq", "wq", "tq"} :
      /\ WalkEnd(nxt, Queue(St, q).first, {}) = NULL
      /\ LastIsTail(St, q)
      /\ Queue(St, q).first = NULL <=> Queue(St, q).last = NULL

====
